---- MODULE Spec2Model ----
(***************************************************************************)
(* Book management library: the catalog (books), the review store and the  *)
(* read-only recommendation / rating-aggregation services on top of them.  *)
(*                                                                         *)
(* Ratings are floats in [1,5]; they are kept here as integers counted in  *)
(* units of 1/RatingDen, and every average is an exact fraction <<n, d>>.  *)
(* Strings that the code inspects (genres) are sequences of characters.    *)
(***************************************************************************)
EXTENDS Integers, Sequences, FiniteSets, TLC

VARIABLES books, reviews, nextBookId, nextReviewId, client, res,
          users, nextUserId, now, tasks, loop

vars == <<books, reviews, nextBookId, nextReviewId, client, res,
          users, nextUserId, now, tasks, loop>>

db == <<books, reviews>>

(* ------------------------------ bounds -------------------------------- *)

MaxBooks == 2

MaxReviews == 2

MaxLimit == 3

MaxTasks == 2

MaxClock == 1

MaxUsers == 2

(* -------------------------- program constants ------------------------- *)

RatingDen == 4

RatingMin == 1

RatingMax == 5

DefaultMinReviews == 2

FavoriteMinRating == 4

MaxFavoriteGenres == 3

SummaryReviews == 5

(* ------------------------------ inputs -------------------------------- *)

Genres == { <<"F", "i">>, <<"f", "i">>, <<"S", "f", "i">> }

\* BookCreate.title and ReviewCreate.review_text: required, min_length=1
Titles == { <<"A">> }

ReviewTexts == { <<"g">> }

GenreInputs == Genres \cup { <<"M">>, <<"_", "i">> }

UserIds == {1, 2}

\* 3.0, 4.0 and 4.25, as ReviewCreate admits them (ge=1, le=5)
Ratings == { r \in {12, 16, 17} : RatingMin * RatingDen <= r /\ r <= RatingMax * RatingDen }

\* UserCreate.username and UserCreate.email
Usernames == {"ann", "bob", "cat"}

Emails == {"a@x.org", "b@x.org", "c@x.org"}

Limits == 0 .. MaxLimit

BookIdInputs == 1 .. (MaxBooks + 1)

MinReviewsInputs == {0, 1, DefaultMinReviews}

ExcludeInputs == { {}, {1} }

AdvisorOutcomes == {"ok", "timeout", "transport", "malformed"}

AdvisorTexts == { <<"o", "k">>, <<" ", "o", "k">> }

(* ------------------------------ helpers ------------------------------- *)

Min(a, b) == IF a <= b THEN a ELSE b

Take(s, n) == SubSeq(s, 1, Min(n, Len(s)))

Range(s) == { s[i] : i \in DOMAIN s }

Ids(s) == [ i \in DOMAIN s |-> s[i].id ]

RECURSIVE Gcd(_, _)
Gcd(a, b) == IF b = 0 THEN a ELSE Gcd(b, a % b)

\* The exact value n/d as a reduced fraction <<n, d>>, d > 0.
Frac(n, d) == LET g == Gcd(n, d) IN <<n \div g, d \div g>>

FracLess(p, q) == p[1] * q[2] < q[1] * p[2]

\* Python None and SQL NULL.
None == <<>>

\* float 0.0
Zero == Frac(0, 1)

\* str.lower() / SQL lower() on the characters in use.
LowerChar(c) == CASE c = "F" -> "f" [] c = "S" -> "s" [] c = "M" -> "m" [] OTHER -> c

Lower(s) == [ i \in DOMAIN s |-> LowerChar(s[i]) ]

\* SQL LIKE: "%" matches any run of characters, "_" exactly one character.
RECURSIVE LikeMatch(_, _)
LikeMatch(p, s) ==
    IF p = <<>> THEN s = <<>>
    ELSE IF Head(p) = "%"
         THEN LikeMatch(Tail(p), s) \/ (s # <<>> /\ LikeMatch(p, Tail(s)))
         ELSE /\ s # <<>>
              /\ (Head(p) = "_" \/ Head(p) = Head(s))
              /\ LikeMatch(Tail(p), Tail(s))

\* Book.genre.ilike(f"%{genre}%")
GenreILike(bookGenre, genre) ==
    LikeMatch(<<"%">> \o Lower(genre) \o <<"%">>, Lower(bookGenre))

\* The orders in which the database may hand back the rows of the books
\* table to a statement that carries no ORDER BY (or whose ORDER BY ties).
ScanOrders ==
    LET n == Len(books)
        perms == { p \in [1 .. n -> 1 .. n] : \A i, j \in 1 .. n : p[i] = p[j] => i = j }
    IN  { [ i \in 1 .. n |-> books[p[i]] ] : p \in perms }

\* select(Book).where(Book.id == book_id) ... scalar_one_or_none()
get_book_by_id(book_id) ==
    IF \E i \in DOMAIN books : books[i].id = book_id
    THEN books[CHOOSE i \in DOMAIN books : books[i].id = book_id]
    ELSE None

ReviewsOf(book_id) == SelectSeq(reviews, LAMBDA r : r.book_id = book_id)

RECURSIVE SumRatings(_)
SumRatings(rs) == IF rs = <<>> THEN 0 ELSE Head(rs).rating + SumRatings(Tail(rs))

\* func.avg(Review.rating) over the reviews of one book: NULL without rows.
AvgRating(book_id) ==
    LET rs == ReviewsOf(book_id)
    IN  IF rs = <<>> THEN None ELSE Frac(SumRatings(rs), Len(rs) * RatingDen)

\* func.count(Review.id) over the reviews of one book.
ReviewCount(book_id) == Len(ReviewsOf(book_id))

(* ------------------------- update and delete -------------------------- *)

\* The columns that the update models BookUpdate and ReviewUpdate can set
\* (all of them nullable=False), and the values given for them: a new title
\* or an explicit null, a new genre, a new text or an explicit null, a new
\* rating (3.0).
BookFields == {"title", "genre"}

ReviewFields == {"review_text", "rating"}

TitleUpdates == { None, <<"B">> }

GenreUpdates == { <<"f", "i">> }

ReviewTextUpdates == { None, <<"b">> }

RatingUpdates == { r \in {12} : RatingMin * RatingDen <= r /\ r <= RatingMax * RatingDen }

\* book_data.model_dump(exclude_unset=True): a dict whose keys are the fields
\* that the caller gave.
BookUpdateData(fields_set, title, genre) ==
    [ f \in fields_set |-> IF f = "title" THEN title ELSE genre ]

\* review_data.model_dump(exclude_unset=True)
ReviewUpdateData(fields_set, review_text, rating) ==
    [ f \in fields_set |-> IF f = "review_text" THEN review_text ELSE rating ]

\* select(Review).where(Review.id == review_id) ... scalar_one_or_none()
get_review_by_id(review_id) ==
    IF \E i \in DOMAIN reviews : reviews[i].id = review_id
    THEN reviews[CHOOSE i \in DOMAIN reviews : reviews[i].id = review_id]
    ELSE None

\* "for key, value in update_data.items(): setattr(row, key, value)"
SetAttrs(row, update_data) ==
    [ f \in DOMAIN row |-> IF f \in DOMAIN update_data THEN update_data[f] ELSE row[f] ]

\* session.commit() of a loaded row that was assigned to. A NULL in one of the
\* text columns, all nullable=False, fails the flush (IntegrityError); a row
\* whose column values are as loaded issues no UPDATE; otherwise the UPDATE
\* also sets updated_at (onupdate=datetime.utcnow).
Flush(row, assigned, texts) ==
    IF \E f \in texts : assigned[f] = None
    THEN [ raised |-> "IntegrityError", row |-> row ]
    ELSE IF assigned = row
    THEN [ raised |-> "none", row |-> row ]
    ELSE [ raised |-> "none", row |-> [assigned EXCEPT !.updated_at = now] ]

\* Variant of update_book that assigns every field of the update model, the
\* ones not given with the row's id as a filler (a full overwrite).
update_book_overwrite(book_id, book_data) ==
    LET book == get_book_by_id(book_id)
        all == [ f \in BookFields |->
                   IF f \in DOMAIN book_data THEN book_data[f] ELSE <<"U">> ]
    IN  IF book = None
        THEN [ raised |-> "none", value |-> "None", books |-> books ]
        ELSE LET done == Flush(book, SetAttrs(book, all), BookFields)
             IN  [ raised |-> done.raised,
                   value |-> IF done.raised = "none" THEN "Book" ELSE "none",
                   books |-> [ i \in DOMAIN books |->
                                 IF books[i].id = book_id THEN done.row ELSE books[i] ] ]

\* BookService.update_book: what it returns ("Book" for the updated book,
\* "None") or raises, and the books table afterwards.
update_book(book_id, book_data) ==
    LET book == get_book_by_id(book_id)
    IN  IF book = None
        THEN [ raised |-> "none", value |-> "None", books |-> books ]
        ELSE LET done == Flush(book, SetAttrs(book, book_data), BookFields)
             IN  [ raised |-> done.raised,
                   value |-> IF done.raised = "none" THEN "Book" ELSE "none",
                   books |-> [ i \in DOMAIN books |->
                                 IF books[i].id = book_id THEN done.row ELSE books[i] ] ]

\* ReviewService.update_review
update_review(review_id, review_data) ==
    LET review == get_review_by_id(review_id)
    IN  IF review = None
        THEN [ raised |-> "none", value |-> "None", reviews |-> reviews ]
        ELSE LET done == Flush(review, SetAttrs(review, review_data), {"review_text"})
             IN  [ raised |-> done.raised,
                   value |-> IF done.raised = "none" THEN "Review" ELSE "none",
                   reviews |-> [ i \in DOMAIN reviews |->
                                   IF reviews[i].id = review_id THEN done.row ELSE reviews[i] ] ]

\* Variant of delete_book that reports success whether or not the book was
\* there.
delete_book_always(book_id) ==
    [ value |-> "True",
      books |-> SelectSeq(books, LAMBDA b : b.id # book_id),
      reviews |-> SelectSeq(reviews, LAMBDA r : r.book_id # book_id) ]

\* BookService.delete_book: session.delete(book) takes the book's reviews
\* with it (relationship cascade="all, delete-orphan").
delete_book(book_id) ==
    IF get_book_by_id(book_id) = None
    THEN [ value |-> "False", books |-> books, reviews |-> reviews ]
    ELSE [ value |-> "True",
           books |-> SelectSeq(books, LAMBDA b : b.id # book_id),
           reviews |-> SelectSeq(reviews, LAMBDA r : r.book_id # book_id) ]

\* ReviewService.delete_review
delete_review(review_id) ==
    IF get_review_by_id(review_id) = None
    THEN [ value |-> "False", reviews |-> reviews ]
    ELSE [ value |-> "True", reviews |-> SelectSeq(reviews, LAMBDA r : r.id # review_id) ]

\* The PUT /reviews/{review_id} route (update_review of review_routes): the
\* status it raises ("none" when it returns the review) and the reviews
\* afterwards. An exception of the service becomes a 400.
route_update_review(review_id, review_data, user_id) ==
    LET review == get_review_by_id(review_id)
    IN  IF review = None
        THEN [ raised |-> "404", value |-> "none", reviews |-> reviews ]
        ELSE IF review.user_id # user_id
        THEN [ raised |-> "403", value |-> "none", reviews |-> reviews ]
        ELSE LET r == update_review(review_id, review_data)
             IN  IF r.raised # "none"
                 THEN [ raised |-> "400", value |-> "none", reviews |-> r.reviews ]
                 ELSE [ raised |-> "none", value |-> r.value, reviews |-> r.reviews ]

\* Variant of route_delete_review without the author check.
route_delete_review_anyone(review_id, user_id) ==
    LET review == get_review_by_id(review_id)
    IN  IF review = None
        THEN [ raised |-> "404", value |-> "none", reviews |-> reviews ]
        ELSE [ raised |-> "none", value |-> "204", reviews |-> delete_review(review_id).reviews ]

\* The DELETE /reviews/{review_id} route (delete_review of review_routes)
route_delete_review(review_id, user_id) ==
    LET review == get_review_by_id(review_id)
    IN  IF review = None
        THEN [ raised |-> "404", value |-> "none", reviews |-> reviews ]
        ELSE IF review.user_id # user_id
        THEN [ raised |-> "403", value |-> "none", reviews |-> reviews ]
        ELSE LET r == delete_review(review_id)
             IN  IF r.value = "False"
                 THEN [ raised |-> "404", value |-> "none", reviews |-> r.reviews ]
                 ELSE [ raised |-> "none", value |-> "204", reviews |-> r.reviews ]

\* ReviewService.create_review: the INSERT of a review row and its commit on
\* the PostgreSQL database of settings.database_url. Review.book_id is a
\* ForeignKey("books.id"): the INSERT of a row whose book is not there fails
\* (IntegrityError) and stores nothing.
create_review(book_id, user_id, review_text, rating) ==
    IF get_book_by_id(book_id) = None
    THEN [ raised |-> "IntegrityError", reviews |-> reviews ]
    ELSE [ raised |-> "none",
           reviews |-> Append(reviews,
                [id |-> nextReviewId, book_id |-> book_id, user_id |-> user_id,
                 rating |-> rating, review_text |-> review_text, updated_at |-> now]) ]

(* ------------------------------- users -------------------------------- *)

\* select(User).where((User.username == username) | (User.email == email))
UsersMatching(username, email) ==
    SelectSeq(users, LAMBDA u : u.username = username \/ u.email = email)

\* UserService.create_user: what it returns ("User") or raises, and the users
\* table afterwards. result.scalar_one_or_none() raises MultipleResultsFound
\* when the statement yields more than one row.
create_user(username, email) ==
    LET found == UsersMatching(username, email)
    IN  IF Len(found) > 1
        THEN [ raised |-> "MultipleResultsFound", value |-> "none", users |-> users ]
        ELSE IF Len(found) = 1
        THEN [ raised |-> "ValueError", value |-> "none", users |-> users ]
        ELSE [ raised |-> "none", value |-> "User",
               users |-> Append(users, [id |-> nextUserId, username |-> username,
                                        email |-> email]) ]

(* ------------------------ rating aggregation -------------------------- *)

\* Variant of get_book_rating_summary without the "else 0.0": the NULL average
\* of a book without reviews is passed on.
get_book_rating_summary_nosentinel(book_id) ==
    << AvgRating(book_id), ReviewCount(book_id) >>

\* Variant of get_book_rating_summary that rounds the average to 2 decimal
\* places, half up.
get_book_rating_summary_rounded(book_id) ==
    LET avg_rating == AvgRating(book_id)
    IN  << IF avg_rating # None /\ avg_rating # Zero
           THEN Frac((200 * avg_rating[1] + avg_rating[2]) \div (2 * avg_rating[2]), 100)
           ELSE Zero,
           ReviewCount(book_id) >>

\* ReviewService.get_book_rating_summary: <<average_rating, total_reviews>>.
\* "float(avg_rating) if avg_rating else 0.0, total_reviews or 0"
get_book_rating_summary(book_id) ==
    LET avg_rating == AvgRating(book_id)
        total_reviews == ReviewCount(book_id)
    IN  << IF avg_rating # None /\ avg_rating # Zero THEN avg_rating ELSE Zero,
           total_reviews >>

(* ------------------------ recommendation service ---------------------- *)

\* RecommendationService.get_recommendations_by_genre; scan is the order in
\* which the unordered SELECT yields the books.
get_recommendations_by_genre(genre, limit, exclude_book_ids, scan) ==
    LET hit(b) == /\ GenreILike(b.genre, genre)
                  /\ (exclude_book_ids # {} => b.id \notin exclude_book_ids)
    IN  Take(SelectSeq(scan, hit), limit)

\* ORDER BY avg_rating DESC over rows arriving in the order rows: a row goes
\* behind every row whose average is not smaller, so equal averages keep the
\* order in which the rows arrived.
RECURSIVE OrderByAvgDesc(_)
OrderByAvgDesc(rows) ==
    IF rows = <<>> THEN <<>>
    ELSE LET sorted == OrderByAvgDesc(SubSeq(rows, 1, Len(rows) - 1))
             b == rows[Len(rows)]
             ahead == SelectSeq(sorted, LAMBDA x : ~FracLess(AvgRating(x.id), AvgRating(b.id)))
             behind == SelectSeq(sorted, LAMBDA x : FracLess(AvgRating(x.id), AvgRating(b.id)))
         IN  ahead \o <<b>> \o behind

\* Variant of get_popular_books with "review_count > min_reviews".
get_popular_books_strict(limit, min_reviews, scan) ==
    LET kept == SelectSeq(scan, LAMBDA b : ReviewCount(b.id) > min_reviews)
    IN  Take(OrderByAvgDesc(kept), limit)

\* Variant of get_popular_books without the ORDER BY.
get_popular_books_unordered(limit, min_reviews, scan) ==
    LET joined == SelectSeq(scan, LAMBDA b : ReviewCount(b.id) > 0)
        kept == SelectSeq(joined, LAMBDA b : ReviewCount(b.id) >= min_reviews)
    IN  Take(kept, limit)

\* RecommendationService.get_popular_books
get_popular_books(limit, min_reviews, scan) ==
    LET joined == SelectSeq(scan, LAMBDA b : ReviewCount(b.id) > 0)
        kept == SelectSeq(joined, LAMBDA b : ReviewCount(b.id) >= min_reviews)
    IN  Take(OrderByAvgDesc(kept), limit)

\* Variant of get_similar_books without the "if not book: return []" guard:
\* a missing reference book constrains nothing but the id.
get_similar_books_nocheck(book_id, limit, scan) ==
    LET book == get_book_by_id(book_id)
    IN  Take(SelectSeq(scan, LAMBDA b :
                 (book # None => b.genre = book.genre) /\ b.id # book_id), limit)

\* Variant of get_similar_books that compares the genres without regard to
\* case.
get_similar_books_nocase(book_id, limit, scan) ==
    LET book == get_book_by_id(book_id)
    IN  IF book = None THEN <<>>
        ELSE Take(SelectSeq(scan, LAMBDA b : Lower(b.genre) = Lower(book.genre)
                                             /\ b.id # book_id), limit)

\* RecommendationService.get_similar_books
get_similar_books(book_id, limit, scan) ==
    LET book == get_book_by_id(book_id)
    IN  IF book = None THEN <<>>
        ELSE Take(SelectSeq(scan, LAMBDA b : b.genre = book.genre /\ b.id # book_id), limit)

\* select(Book).order_by(Book.id).limit(limit)
RECURSIVE OrderById(_)
OrderById(rows) ==
    IF rows = <<>> THEN <<>>
    ELSE LET sorted == OrderById(SubSeq(rows, 1, Len(rows) - 1))
             b == rows[Len(rows)]
         IN  SelectSeq(sorted, LAMBDA x : x.id < b.id) \o <<b>>
               \o SelectSeq(sorted, LAMBDA x : x.id > b.id)

\* Variant of PositiveRows without "Review.user_id == user_id".
PositiveRows_anyuser(user_id, gscan) ==
    SelectSeq(gscan, LAMBDA b :
        \E i \in DOMAIN reviews :
            /\ reviews[i].book_id = b.id
            /\ reviews[i].rating >= FavoriteMinRating * RatingDen)

\* The rows of "select(Book.genre).join(Review ...).where(user_id, rating >= 4)",
\* book by book in the order gscan.
PositiveRows(user_id, gscan) ==
    SelectSeq(gscan, LAMBDA b :
        \E i \in DOMAIN reviews :
            /\ reviews[i].book_id = b.id
            /\ reviews[i].user_id = user_id
            /\ reviews[i].rating >= FavoriteMinRating * RatingDen)

\* GROUP BY Book.genre: one row per genre, in the order the groups come up.
RECURSIVE GroupByGenre(_)
GroupByGenre(rows) ==
    IF rows = <<>> THEN <<>>
    ELSE LET before == GroupByGenre(SubSeq(rows, 1, Len(rows) - 1))
             g == rows[Len(rows)].genre
         IN  IF g \in Range(before) THEN before ELSE Append(before, g)

\* Variant of favorite_genres without the ".limit(3)".
favorite_genres_uncapped(user_id, gscan) ==
    GroupByGenre(PositiveRows(user_id, gscan))

\* favorite_genres of get_user_recommendations: ... .group_by(Book.genre).limit(3)
favorite_genres(user_id, gscan) ==
    Take(GroupByGenre(PositiveRows(user_id, gscan)), MaxFavoriteGenres)

\* The candidate lists, one get_recommendations_by_genre call per favourite
\* genre, each asked for limit // len(favorite_genres) + 1 books.
PerGenreLimit(limit, n) == limit \div n + 1

CandidateLists(favs, limit, scans) ==
    [ i \in DOMAIN favs |->
        get_recommendations_by_genre(favs[i], PerGenreLimit(limit, Len(favs)), {}, scans[i]) ]

\* recommendations.extend(books), list after list
RECURSIVE Extend(_)
Extend(lists) == IF lists = <<>> THEN <<>> ELSE Head(lists) \o Extend(Tail(lists))

\* "Remove duplicates and limit": the loop over recommendations from index i
\* on, with unique_recommendations = out; the length is tested after an append.
RECURSIVE DedupLoop(_, _, _, _)
DedupLoop(recommendations, i, out, limit) ==
    IF i > Len(recommendations) THEN out
    ELSE IF recommendations[i].id \notin Range(Ids(out))
         THEN LET out2 == Append(out, recommendations[i])
              IN  IF Len(out2) >= limit THEN out2
                  ELSE DedupLoop(recommendations, i + 1, out2, limit)
         ELSE DedupLoop(recommendations, i + 1, out, limit)

\* The merge/dedup step of get_user_recommendations.
Merge(lists, limit) == DedupLoop(Extend(lists), 1, <<>>, limit)

\* RecommendationService.get_user_recommendations; gscan orders the genre
\* groups, scans[i] is the row order of the i-th per-genre query and pscan
\* that of the popularity query.
get_user_recommendations(user_id, limit, gscan, scans, pscan) ==
    LET favs == favorite_genres(user_id, gscan)
    IN  IF favs = <<>>
        THEN [ items |-> get_popular_books(limit, DefaultMinReviews, pscan),
               lists |-> <<>>, favs |-> favs ]
        ELSE LET lists == CandidateLists(favs, limit, scans)
             IN  [ items |-> Merge(lists, limit), lists |-> lists, favs |-> favs ]

(* ---------------------------- advisor bridge -------------------------- *)

NotConfiguredMsg == << "LLM service not configured. Please set GROQ_API_KEY environment variable." >>

AwaitStrMsg == << "object str can't be used in 'await' expression" >>

\* str.strip()
RECURSIVE Strip(_)
Strip(t) ==
    IF t # <<>> /\ Head(t) = " " THEN Strip(Tail(t))
    ELSE IF t # <<>> /\ t[Len(t)] = " " THEN Strip(SubSeq(t, 1, Len(t) - 1))
    ELSE t

\* The body shared by the three LLMService methods after the client check:
\* "try: message = self.client.chat.completions.create(...); return
\* message.choices[0].message.content.strip() except Exception as e: raise
\* RuntimeError(f"Failed to generate <what>: {e}")". outcome is what the API
\* call does, text the content of the completion when there is one; called
\* tells that the request went out to the API.
Completion(what, outcome, text) ==
    IF outcome = "ok"
    THEN [ raised |-> "none", msg |-> None, value |-> Strip(text),
           awaitable |-> FALSE, called |-> TRUE ]
    ELSE [ raised |-> "RuntimeError", msg |-> << "Failed to generate ", what, ": ", outcome >>,
           value |-> None, awaitable |-> FALSE, called |-> TRUE ]

\* "if not self.client: raise RuntimeError(...)"
NotConfigured ==
    [ raised |-> "RuntimeError", msg |-> NotConfiguredMsg, value |-> None,
      awaitable |-> FALSE, called |-> FALSE ]

\* LLMService.generate_summary, a plain (non-async) method: what the call
\* expression evaluates to.
generate_summary(outcome, text) ==
    IF client = "none" THEN NotConfigured ELSE Completion("summary", outcome, text)

\* LLMService.generate_review_summary (plain method)
generate_review_summary(outcome, text) ==
    IF client = "none" THEN NotConfigured ELSE Completion("review summary", outcome, text)

\* Variant of generate_recommendations that looks at self.client only when the
\* API call has failed.
generate_recommendations_latecheck(outcome, text) ==
    IF client = "none" /\ outcome # "ok"
    THEN [NotConfigured EXCEPT !.called = TRUE]
    ELSE Completion("recommendations", outcome, text)

\* LLMService.generate_recommendations (plain method)
generate_recommendations(outcome, text) ==
    IF client = "none" THEN NotConfigured ELSE Completion("recommendations", outcome, text)

\* "await <expr>": an exception of the call propagates; a value that is not
\* awaitable makes the await itself raise TypeError.
Await(r) ==
    IF r.raised # "none" THEN r
    ELSE IF r.awaitable THEN r
    ELSE [ raised |-> "TypeError", msg |-> AwaitStrMsg, value |-> None,
           awaitable |-> FALSE, called |-> r.called ]

\* Variant of get_recommendations_with_llm whose except branch returns the
\* id-ordered books of the try branch instead of calling get_popular_books.
get_recommendations_with_llm_byid(limit, outcome, text, scan) ==
    LET reasoning == Await(generate_recommendations(outcome, text))
    IN  [ items |-> Take(OrderById(books), limit),
          text |-> IF reasoning.raised = "none" THEN reasoning.value ELSE reasoning.msg,
          raised |-> "none", fallback |-> reasoning.raised # "none",
          called |-> reasoning.called ]

\* Variant of get_recommendations_with_llm whose except branch returns a fixed
\* criteria text instead of str(e).
get_recommendations_with_llm_fixedtext(limit, outcome, text, scan) ==
    LET reasoning == Await(generate_recommendations(outcome, text))
    IN  IF reasoning.raised = "none"
        THEN [ items |-> Take(OrderById(books), limit), text |-> reasoning.value,
               raised |-> "none", fallback |-> FALSE, called |-> reasoning.called ]
        ELSE [ items |-> get_popular_books(limit, DefaultMinReviews, scan),
               text |-> << "Popular books" >>, raised |-> "none", fallback |-> TRUE,
               called |-> reasoning.called ]

\* RecommendationService.get_recommendations_with_llm
get_recommendations_with_llm(limit, outcome, text, scan) ==
    LET reasoning == Await(generate_recommendations(outcome, text))
    IN  IF reasoning.raised = "none"
        THEN [ items |-> Take(OrderById(books), limit), text |-> reasoning.value,
               raised |-> "none", fallback |-> FALSE, called |-> reasoning.called ]
        ELSE [ items |-> get_popular_books(limit, DefaultMinReviews, scan),
               text |-> reasoning.msg, raised |-> "none", fallback |-> TRUE,
               called |-> reasoning.called ]

(* ------------------------- review summary route ---------------------- *)

NoReviewsMsg == << "No reviews available for this book yet." >>

\* f"Book has {total_reviews} reviews with an average rating of {avg_rating}/5."
FallbackSentence(total_reviews, avg_rating) ==
    << "Book has ", total_reviews, " reviews with an average rating of ", avg_rating, "/5." >>

\* ReviewService.get_reviews_by_book: the page of the book's reviews (the
\* statement has no ORDER BY; the caller below uses the rows only to tell
\* whether there are any and to fill the prompt).
get_reviews_by_book(book_id, skip, limit) ==
    LET rows == ReviewsOf(book_id)
    IN  Take(SubSeq(rows, skip + 1, Len(rows)), limit)

\* Variant of get_review_summary that lets the advisor's exception escape to
\* the outer handler (HTTP 500).
get_review_summary_uncaught(book_id, outcome, text) ==
    LET book == get_book_by_id(book_id)
        summary == get_book_rating_summary(book_id)
        r == generate_review_summary(outcome, text)
    IN  IF book = None
        THEN [ raised |-> "404", avg |-> None, total |-> 0, text |-> None,
               called |-> FALSE, advisor |-> "skipped" ]
        ELSE IF get_reviews_by_book(book_id, 0, SummaryReviews) = <<>>
        THEN [ raised |-> "none", avg |-> summary[1], total |-> summary[2],
               text |-> NoReviewsMsg, called |-> FALSE, advisor |-> "skipped" ]
        ELSE [ raised |-> IF r.raised = "none" THEN "none" ELSE "500",
               avg |-> summary[1], total |-> summary[2],
               text |-> r.value, called |-> r.called,
               advisor |-> IF client = "none" THEN "unconfigured" ELSE outcome ]

\* Variant of get_review_summary that asks the advisor whether or not the book
\* has reviews.
get_review_summary_always(book_id, outcome, text) ==
    LET book == get_book_by_id(book_id)
        summary == get_book_rating_summary(book_id)
        r == generate_review_summary(outcome, text)
    IN  IF book = None
        THEN [ raised |-> "404", avg |-> None, total |-> 0, text |-> None,
               called |-> FALSE, advisor |-> "skipped" ]
        ELSE [ raised |-> "none", avg |-> summary[1], total |-> summary[2],
               text |-> IF r.raised = "none" THEN r.value
                        ELSE FallbackSentence(summary[2], summary[1]),
               called |-> r.called,
               advisor |-> IF client = "none" THEN "unconfigured" ELSE outcome ]

\* GET /books/{book_id}/summary, the route get_review_summary: the response
\* fields, the HTTP error if any, whether a request went out to the advisor
\* API and what the advisor did ("skipped": generate_review_summary not called).
get_review_summary(book_id, outcome, text) ==
    LET book == get_book_by_id(book_id)
    IN  IF book = None
        THEN [ raised |-> "404", avg |-> None, total |-> 0, text |-> None,
               called |-> FALSE, advisor |-> "skipped" ]
        ELSE LET summary == get_book_rating_summary(book_id)
                 avg_rating == summary[1]
                 total_reviews == summary[2]
                 fetched == get_reviews_by_book(book_id, 0, SummaryReviews)
                 review_texts == [ i \in DOMAIN fetched |-> fetched[i].review_text ]
             IN  IF review_texts # <<>>
                 THEN LET r == generate_review_summary(outcome, text)
                      IN  [ raised |-> "none", avg |-> avg_rating, total |-> total_reviews,
                            text |-> IF r.raised = "none" THEN r.value
                                     ELSE FallbackSentence(total_reviews, avg_rating),
                            called |-> r.called,
                            advisor |-> IF client = "none" THEN "unconfigured" ELSE outcome ]
                 ELSE [ raised |-> "none", avg |-> avg_rating, total |-> total_reviews,
                        text |-> NoReviewsMsg, called |-> FALSE, advisor |-> "skipped" ]

\* The part of get_review_summary after its reads: the summary text for the
\* rating summary (avg_rating, total_reviews) and the rows (fetched) it has
\* read, which come from two statements.
summary_text(avg_rating, total_reviews, fetched, outcome, text) ==
    LET review_texts == [ i \in DOMAIN fetched |-> fetched[i].review_text ]
    IN  IF review_texts # <<>>
        THEN LET r == generate_review_summary(outcome, text)
             IN  IF r.raised = "none" THEN r.value
                 ELSE FallbackSentence(total_reviews, avg_rating)
        ELSE NoReviewsMsg

(* --------------------------- result records --------------------------- *)

\* The response of the request being answered: the operation and its inputs
\* (limit, arg, arg2), and what it returned or raised. called tells that a
\* request went out to the advisor API, value is a plain return value.
NoRes ==
    [ op |-> "none", limit |-> 0, arg |-> None, arg2 |-> None, items |-> <<>>,
      lists |-> <<>>, avg |-> None, total |-> 0, text |-> None, raised |-> "none",
      called |-> FALSE, value |-> "none" ]

\* No request is being answered: the last response has gone out.
Idle == res.op = "none"

(* --------------------------- request tasks ---------------------------- *)

\* The requests in progress on the one event loop: each is a task running its
\* route handler (a coroutine). pc is the call the task is suspended in or
\* executing, ready tells that the awaited database I/O has completed, so that
\* the loop can resume the task. loop is the task whose code occupies the
\* loop's thread between two states, 0 when the thread is back in the loop.
TaskIds == 1 .. MaxTasks

NoTask == [ kind |-> "none", arg |-> 0, pc |-> "none", ready |-> FALSE ]

TaskKinds == { "get_review_summary", "get_recommendations_with_llm", "get_popular_books" }

\* "await <service call>": the task is suspended, the thread returns to the loop.
AwaitPositions ==
    { "get_book_by_id", "get_book_rating_summary", "get_reviews_by_book",
      "select_books", "get_popular_books" }

\* self.client.chat.completions.create(...) of the synchronous Groq client,
\* called from the coroutine itself: the thread is inside the HTTP call.
CallPositions == { "generate_review_summary", "generate_recommendations" }

\* The first await of each handler.
FirstAwait(kind) ==
    CASE kind = "get_review_summary" -> "get_book_by_id"
      [] kind = "get_recommendations_with_llm" -> "select_books"
      [] kind = "get_popular_books" -> "get_popular_books"

\* Where the handler gets to when it is resumed after the await it is in: the
\* next await, the advisor call, or its return ("done").
AfterAwait(task) ==
    CASE task.pc = "get_book_by_id" ->
           IF get_book_by_id(task.arg) = None THEN "done" ELSE "get_book_rating_summary"
      [] task.pc = "get_book_rating_summary" -> "get_reviews_by_book"
      [] task.pc = "get_reviews_by_book" ->
           IF get_reviews_by_book(task.arg, 0, SummaryReviews) = <<>> THEN "done"
           ELSE IF client = "none" THEN "done"
           ELSE "generate_review_summary"
      [] task.pc = "select_books" ->
           IF client = "none" THEN "get_popular_books" ELSE "generate_recommendations"
      [] task.pc = "get_popular_books" -> "done"

\* Variant of AfterCall in which a recommendation handler whose advisor call
\* has ended goes back into the same call instead of going on to the fallback.
AfterCall_again(task) ==
    CASE task.pc = "generate_review_summary" -> "done"
      [] task.pc = "generate_recommendations" -> "generate_recommendations"

\* Where the handler gets to when the advisor call returns or raises: the
\* summary route returns its response, get_recommendations_with_llm goes on to
\* "await RecommendationService.get_popular_books" in its except branch.
AfterCall(task) ==
    CASE task.pc = "generate_review_summary" -> "done"
      [] task.pc = "generate_recommendations" -> "get_popular_books"

(* ------------------------------- state -------------------------------- *)

Init ==
    /\ books = <<>>
    /\ reviews = <<>>
    /\ nextBookId = 1
    /\ nextReviewId = 1
    /\ client \in {"none", "groq"}
    /\ res = NoRes
    /\ users = <<>>
    /\ nextUserId = 1
    /\ now = 0
    /\ tasks = [ t \in TaskIds |-> NoTask ]
    /\ loop = 0

\* BookService.create_book
CreateBook ==
    /\ Idle
    /\ Len(books) < MaxBooks
    /\ \E t \in Titles, g \in Genres :
         /\ books' = Append(books, [id |-> nextBookId, title |-> t, genre |-> g,
                                     updated_at |-> now])
         /\ nextBookId' = nextBookId + 1
         /\ res' = [NoRes EXCEPT !.op = "create_book", !.arg = nextBookId]
    /\ UNCHANGED <<reviews, nextReviewId, client, users, nextUserId, now, tasks, loop>>

\* POST /books/{book_id}/reviews -> ReviewService.create_review
CreateReview ==
    /\ Idle
    /\ Len(reviews) < MaxReviews
    /\ \E b \in BookIdInputs, u \in UserIds, r \in Ratings, t \in ReviewTexts :
         IF get_book_by_id(b) = None
         THEN /\ res' = [NoRes EXCEPT !.op = "create_review", !.arg = b, !.raised = "404"]
              /\ UNCHANGED <<reviews, nextReviewId>>
         ELSE /\ reviews' = Append(reviews,
                    [id |-> nextReviewId, book_id |-> b, user_id |-> u, rating |-> r,
                     review_text |-> t, updated_at |-> now])
              /\ nextReviewId' = nextReviewId + 1
              /\ res' = [NoRes EXCEPT !.op = "create_review", !.arg = b]
    /\ UNCHANGED <<books, nextBookId, client, users, nextUserId, now, tasks, loop>>

\* Variant of GetBookRatingSummary that writes to the book row it has
\* aggregated (an UPDATE, which also moves updated_at).
GetBookRatingSummary_touching ==
    /\ Idle
    /\ \E b \in BookIdInputs :
         LET summary == get_book_rating_summary(b)
         IN  /\ res' = [NoRes EXCEPT !.op = "get_book_rating_summary", !.arg = b,
                                     !.avg = summary[1], !.total = summary[2]]
             /\ books' = [ i \in DOMAIN books |->
                             IF books[i].id = b
                             THEN [books[i] EXCEPT !.updated_at = now + 1]
                             ELSE books[i] ]
    /\ UNCHANGED <<reviews, nextBookId, nextReviewId, client, users, nextUserId, now, tasks, loop>>

\* GET rating summary -> ReviewService.get_book_rating_summary
GetBookRatingSummary ==
    /\ Idle
    /\ \E b \in BookIdInputs :
         LET summary == get_book_rating_summary(b)
         IN  res' = [NoRes EXCEPT !.op = "get_book_rating_summary", !.arg = b,
                                  !.avg = summary[1], !.total = summary[2]]
    /\ UNCHANGED <<books, reviews, nextBookId, nextReviewId, client, users, nextUserId, now, tasks, loop>>

\* RecommendationService.get_recommendations_by_genre as a request
GetRecommendationsByGenre ==
    /\ Idle
    /\ \E genre \in GenreInputs, limit \in Limits, ex \in ExcludeInputs, scan \in ScanOrders :
         res' = [NoRes EXCEPT !.op = "get_recommendations_by_genre", !.limit = limit,
                              !.arg = genre, !.arg2 = ex,
                              !.items = get_recommendations_by_genre(genre, limit, ex, scan)]
    /\ UNCHANGED <<books, reviews, nextBookId, nextReviewId, client, users, nextUserId, now, tasks, loop>>

\* RecommendationService.get_popular_books as a request
GetPopularBooks ==
    /\ Idle
    /\ \E limit \in Limits, m \in MinReviewsInputs, scan \in ScanOrders :
         res' = [NoRes EXCEPT !.op = "get_popular_books", !.limit = limit, !.arg = m,
                              !.items = get_popular_books(limit, m, scan)]
    /\ UNCHANGED <<books, reviews, nextBookId, nextReviewId, client, users, nextUserId, now, tasks, loop>>

\* RecommendationService.get_similar_books as a request
GetSimilarBooks ==
    /\ Idle
    /\ \E b \in BookIdInputs, limit \in Limits, scan \in ScanOrders :
         res' = [NoRes EXCEPT !.op = "get_similar_books", !.limit = limit, !.arg = b,
                              !.items = get_similar_books(b, limit, scan)]
    /\ UNCHANGED <<books, reviews, nextBookId, nextReviewId, client, users, nextUserId, now, tasks, loop>>

\* GET /books/{book_id}/summary as a request
GetReviewSummary ==
    /\ Idle
    /\ \E b \in BookIdInputs, outcome \in AdvisorOutcomes, text \in AdvisorTexts :
         LET r == get_review_summary(b, outcome, text)
         IN  res' = [NoRes EXCEPT !.op = "get_review_summary", !.arg = b,
                                  !.arg2 = IF r.advisor = "ok" THEN text ELSE None,
                                  !.value = r.advisor,
                                  !.avg = r.avg, !.total = r.total, !.text = r.text,
                                  !.raised = r.raised, !.called = r.called]
    /\ UNCHANGED <<books, reviews, nextBookId, nextReviewId, client, users, nextUserId, now, tasks, loop>>

\* LLMService.generate_summary called on its own (the summary generation
\* endpoint): the text it returns or the error it raises.
GenerateSummary ==
    /\ Idle
    /\ \E outcome \in AdvisorOutcomes, text \in AdvisorTexts :
         LET r == generate_summary(outcome, text)
         IN  res' = [NoRes EXCEPT !.op = "generate_summary",
                                  !.arg = IF client = "none" THEN "unconfigured" ELSE outcome,
                                  !.text = IF r.raised = "none" THEN r.value ELSE r.msg,
                                  !.raised = r.raised, !.called = r.called]
    /\ UNCHANGED <<books, reviews, nextBookId, nextReviewId, client, users, nextUserId, now, tasks, loop>>

\* What the advisor did for a request: "unconfigured" when there is no client.
AdvisorStatus(outcome) == IF client = "none" THEN "unconfigured" ELSE outcome

\* RecommendationService.get_recommendations_with_llm as a request
GetRecommendationsWithLLM ==
    /\ Idle
    /\ \E limit \in Limits, outcome \in AdvisorOutcomes, text \in AdvisorTexts,
          scan \in ScanOrders :
         LET r == get_recommendations_with_llm(limit, outcome, text, scan)
         IN  res' = [NoRes EXCEPT !.op = "get_recommendations_with_llm", !.limit = limit,
                                  !.arg = AdvisorStatus(outcome),
                                  !.arg2 = IF AdvisorStatus(outcome) = "ok" THEN text ELSE None,
                                  !.items = r.items, !.text = r.text, !.raised = r.raised,
                                  !.called = r.called]
    /\ UNCHANGED <<books, reviews, nextBookId, nextReviewId, client, users, nextUserId, now, tasks, loop>>

\* RecommendationService.get_user_recommendations as a request: one row order
\* for each statement it executes.
GetUserRecommendations ==
    /\ Idle
    /\ \E user_id \in UserIds, limit \in Limits, gscan \in ScanOrders :
         LET n == Len(favorite_genres(user_id, gscan))
         IN  \E pscan \in (IF n = 0 THEN ScanOrders ELSE {gscan}),
                scans \in [1 .. n -> ScanOrders] :
               LET r == get_user_recommendations(user_id, limit, gscan, scans, pscan)
               IN  res' = [NoRes EXCEPT !.op = "get_user_recommendations", !.limit = limit,
                                        !.arg = user_id, !.arg2 = r.favs,
                                        !.items = r.items, !.lists = r.lists]
    /\ UNCHANGED <<books, reviews, nextBookId, nextReviewId, client, users, nextUserId, now, tasks, loop>>

\* The response goes out and the request's session is closed (get_db).
EndRequest ==
    /\ ~Idle
    /\ res' = NoRes
    /\ UNCHANGED <<books, reviews, nextBookId, nextReviewId, client, users, nextUserId, now, tasks, loop>>

Next ==
    \/ CreateBook
    \/ CreateReview
    \/ GetBookRatingSummary
    \/ GetRecommendationsByGenre
    \/ GetPopularBooks
    \/ GetSimilarBooks
    \/ GetRecommendationsWithLLM
    \/ GetUserRecommendations
    \/ GetReviewSummary
    \/ GenerateSummary
    \/ EndRequest

Spec == Init /\ [][Next]_vars


(* ---------------------- requests on the event loop -------------------- *)

InitLoop ==
    /\ books = << [id |-> 1, title |-> <<"A">>, genre |-> <<"F", "i">>, updated_at |-> 0] >>
    /\ reviews \in { <<>>,
                     << [id |-> 1, book_id |-> 1, user_id |-> 1, rating |-> 16,
                         review_text |-> <<"g">>, updated_at |-> 0] >> }
    /\ nextBookId = 2
    /\ nextReviewId = Len(reviews) + 1
    /\ client \in {"none", "groq"}
    /\ res = NoRes
    /\ users = <<>>
    /\ nextUserId = 1
    /\ now = 0
    /\ tasks = [ t \in TaskIds |-> NoTask ]
    /\ loop = 0

\* The loop accepts a request and runs its handler up to the first await.
Accept(t) ==
    /\ loop = 0
    /\ tasks[t].kind = "none"
    /\ \E kind \in TaskKinds, b \in BookIdInputs :
         tasks' = [tasks EXCEPT ![t] =
                     [ kind |-> kind, arg |-> IF kind = "get_review_summary" THEN b ELSE 0,
                       pc |-> FirstAwait(kind), ready |-> FALSE ]]
    /\ UNCHANGED <<books, reviews, nextBookId, nextReviewId, client, res,
                   users, nextUserId, now, loop>>

\* The database answers the statement a task is waiting for.
IoDone(t) ==
    /\ tasks[t].pc \in AwaitPositions
    /\ ~tasks[t].ready
    /\ tasks' = [tasks EXCEPT ![t].ready = TRUE]
    /\ UNCHANGED <<books, reviews, nextBookId, nextReviewId, client, res,
                   users, nextUserId, now, loop>>

\* The loop resumes a ready task, whose handler runs on the loop's thread up
\* to its next await, into the advisor call, or to its return.
Resume(t) ==
    /\ loop = 0
    /\ tasks[t].pc \in AwaitPositions
    /\ tasks[t].ready
    /\ LET next == AfterAwait(tasks[t])
       IN  /\ tasks' = [tasks EXCEPT ![t].pc = next, ![t].ready = FALSE]
           /\ loop' = IF next \in CallPositions THEN t ELSE 0
    /\ UNCHANGED <<books, reviews, nextBookId, nextReviewId, client, res,
                   users, nextUserId, now>>

\* The advisor API answers or fails and the handler goes on; until then the
\* thread stays inside the call.
AdvisorReturns(t) ==
    /\ loop = t
    /\ tasks[t].pc \in CallPositions
    /\ tasks' = [tasks EXCEPT ![t].pc = AfterCall(tasks[t]), ![t].ready = FALSE]
    /\ loop' = 0
    /\ UNCHANGED <<books, reviews, nextBookId, nextReviewId, client, res,
                   users, nextUserId, now>>

\* The response of a handler that has returned goes out.
Respond(t) ==
    /\ loop = 0
    /\ tasks[t].pc = "done"
    /\ tasks' = [tasks EXCEPT ![t] = NoTask]
    /\ UNCHANGED <<books, reviews, nextBookId, nextReviewId, client, res,
                   users, nextUserId, now, loop>>

NextLoop ==
    \E t \in TaskIds :
        \/ Accept(t)
        \/ IoDone(t)
        \/ Resume(t)
        \/ AdvisorReturns(t)
        \/ Respond(t)

SpecLoop == InitLoop /\ [][NextLoop]_vars

\* The event loop with its progress guarantees. The database answers every
\* statement (IoDone). The loop runs its ready callbacks in arrival order, so a
\* task that is ready again and again is resumed and a handler that has
\* returned is answered (Resume, Respond), although either has to wait while
\* another handler occupies the thread. The client is built as
\* Groq(api_key=...) and called without a timeout argument, so the request
\* timeout and retry count that the client has by default apply: the call
\* returns or raises (AdvisorReturns).
FairLoop ==
    \A t \in TaskIds :
        /\ WF_vars(IoDone(t))
        /\ SF_vars(Resume(t))
        /\ WF_vars(AdvisorReturns(t))
        /\ SF_vars(Respond(t))

SpecLoopFair == InitLoop /\ [][NextLoop]_vars /\ FairLoop

(* --------------------- updates and deletes of rows -------------------- *)

\* A catalog of two books, each reviewed once, as create_book and
\* create_review leave it.
InitStore ==
    /\ books = << [id |-> 1, title |-> <<"A">>, genre |-> <<"F", "i">>, updated_at |-> 0],
                  [id |-> 2, title |-> <<"A">>, genre |-> <<"S", "f", "i">>, updated_at |-> 0] >>
    /\ reviews = << [id |-> 1, book_id |-> 1, user_id |-> 1, rating |-> 16,
                     review_text |-> <<"g">>, updated_at |-> 0],
                    [id |-> 2, book_id |-> 2, user_id |-> 2, rating |-> 17,
                     review_text |-> <<"g">>, updated_at |-> 0] >>
    /\ nextBookId = 3
    /\ nextReviewId = 3
    /\ client = "groq"
    /\ res = NoRes
    /\ users = <<>>
    /\ nextUserId = 1
    /\ now = 0
    /\ tasks = [ t \in TaskIds |-> NoTask ]
    /\ loop = 0

\* datetime.utcnow() moves on between two requests.
Tick ==
    /\ Idle
    /\ now < MaxClock
    /\ now' = now + 1
    /\ UNCHANGED <<books, reviews, nextBookId, nextReviewId, client, res,
                   users, nextUserId, tasks, loop>>

\* BookService.update_book
UpdateBook ==
    /\ Idle
    /\ \E b \in BookIdInputs, fields_set \in SUBSET BookFields,
          title \in TitleUpdates, genre \in GenreUpdates :
         LET book_data == BookUpdateData(fields_set, title, genre)
             r == update_book(b, book_data)
         IN  /\ books' = r.books
             /\ res' = [NoRes EXCEPT !.op = "update_book", !.arg = b, !.arg2 = book_data,
                                     !.value = r.value, !.raised = r.raised]
    /\ UNCHANGED <<reviews, nextBookId, nextReviewId, client, users, nextUserId, now, tasks, loop>>

\* ReviewService.update_review
UpdateReview ==
    /\ Idle
    /\ \E id \in 1 .. (MaxReviews + 1), fields_set \in SUBSET ReviewFields,
          review_text \in ReviewTextUpdates, rating \in RatingUpdates :
         LET review_data == ReviewUpdateData(fields_set, review_text, rating)
             r == update_review(id, review_data)
         IN  /\ reviews' = r.reviews
             /\ res' = [NoRes EXCEPT !.op = "update_review", !.arg = id, !.arg2 = review_data,
                                     !.value = r.value, !.raised = r.raised]
    /\ UNCHANGED <<books, nextBookId, nextReviewId, client, users, nextUserId, now, tasks, loop>>

\* BookService.delete_book
DeleteBook ==
    /\ Idle
    /\ \E b \in BookIdInputs :
         LET r == delete_book(b)
         IN  /\ books' = r.books
             /\ reviews' = r.reviews
             /\ res' = [NoRes EXCEPT !.op = "delete_book", !.arg = b, !.value = r.value]
    /\ UNCHANGED <<nextBookId, nextReviewId, client, users, nextUserId, now, tasks, loop>>

NextStore ==
    \/ UpdateBook
    \/ UpdateReview
    \/ DeleteBook
    \/ Tick
    \/ EndRequest

SpecStore == InitStore /\ [][NextStore]_vars

(* ---------------------------- registration ---------------------------- *)

\* UserService.create_user
CreateUser ==
    /\ Idle
    /\ \E username \in Usernames, email \in Emails :
         LET r == create_user(username, email)
         IN  /\ r.raised = "none" => Len(users) < MaxUsers
             /\ users' = r.users
             /\ nextUserId' = IF r.raised = "none" THEN nextUserId + 1 ELSE nextUserId
             /\ res' = [NoRes EXCEPT !.op = "create_user", !.arg = username, !.arg2 = email,
                                     !.value = r.value, !.raised = r.raised]
    /\ UNCHANGED <<books, reviews, nextBookId, nextReviewId, client, now, tasks, loop>>

NextUsers ==
    \/ CreateUser
    \/ EndRequest

SpecUsers == Init /\ [][NextUsers]_vars

(* ------------------------- reading histories -------------------------- *)

\* What a reader did with one book: no review, or a review by user 1 rated
\* 3.0 or 4.0, or a review by user 2 rated 4.25.
HistoryChoices == {"none", "u1_3", "u1_4", "u2_425"}

\* A catalog of four books of four genres; each book has at most one review.
InitHistory ==
    /\ books = << [id |-> 1, title |-> <<"A">>, genre |-> <<"F", "i">>, updated_at |-> 0],
                  [id |-> 2, title |-> <<"A">>, genre |-> <<"f", "i">>, updated_at |-> 0],
                  [id |-> 3, title |-> <<"A">>, genre |-> <<"S", "f", "i">>, updated_at |-> 0],
                  [id |-> 4, title |-> <<"A">>, genre |-> <<"M">>, updated_at |-> 0] >>
    /\ \E c \in [1 .. 4 -> HistoryChoices] :
         reviews = SelectSeq(
                     [ b \in 1 .. 4 |->
                         [ id |-> b, book_id |-> b,
                           user_id |-> IF c[b] = "u2_425" THEN 2 ELSE 1,
                           rating |-> CASE c[b] = "u1_3" -> 12 [] c[b] = "u1_4" -> 16
                                        [] OTHER -> 17,
                           review_text |-> <<"g">>, updated_at |-> 0 ] ],
                     LAMBDA r : c[r.book_id] # "none")
    /\ nextBookId = 5
    /\ nextReviewId = 5
    /\ client = "groq"
    /\ res = NoRes
    /\ users = <<>>
    /\ nextUserId = 1
    /\ now = 0
    /\ tasks = [ t \in TaskIds |-> NoTask ]
    /\ loop = 0

\* The first statement of get_user_recommendations, on its own: the
\* favourite genres of a user.
FavoriteGenres ==
    /\ Idle
    /\ \E user_id \in UserIds, gscan \in ScanOrders :
         res' = [NoRes EXCEPT !.op = "favorite_genres", !.arg = user_id,
                              !.arg2 = favorite_genres(user_id, gscan)]
    /\ UNCHANGED <<books, reviews, nextBookId, nextReviewId, client, users, nextUserId, now, tasks, loop>>

NextHistory ==
    \/ FavoriteGenres
    \/ EndRequest

SpecHistory == InitHistory /\ [][NextHistory]_vars

(* ------------------- summary requests among writers ------------------ *)

\* A review-summary request is answered in steps, one for each statement it
\* awaits; between two of them the loop runs other requests, whose commits the
\* next statement sees (each statement reads the committed rows). res holds
\* what the handler has read so far; res.op names the await it is suspended
\* in until the response is complete.
InitSummary ==
    /\ InitLoop
    /\ client = "groq"

\* "book = await BookService.get_book_by_id(session, book_id)" and the 404
SummaryGetBook ==
    /\ Idle
    /\ \E b \in BookIdInputs :
         res' = IF get_book_by_id(b) = None
                THEN [NoRes EXCEPT !.op = "get_review_summary", !.arg = b,
                                   !.raised = "404", !.value = "skipped"]
                ELSE [NoRes EXCEPT !.op = "await get_book_rating_summary", !.arg = b]
    /\ UNCHANGED <<books, reviews, nextBookId, nextReviewId, client, users, nextUserId, now, tasks, loop>>

\* "avg_rating, total_reviews = await ReviewService.get_book_rating_summary(...)"
SummaryGetRating ==
    /\ res.op = "await get_book_rating_summary"
    /\ LET summary == get_book_rating_summary(res.arg)
       IN  res' = [res EXCEPT !.op = "await get_reviews_by_book",
                              !.avg = summary[1], !.total = summary[2]]
    /\ UNCHANGED <<books, reviews, nextBookId, nextReviewId, client, users, nextUserId, now, tasks, loop>>

\* "reviews, _ = await ReviewService.get_reviews_by_book(...)" and the rest of
\* the handler up to its return.
SummaryGetReviews ==
    /\ res.op = "await get_reviews_by_book"
    /\ \E outcome \in AdvisorOutcomes, text \in AdvisorTexts :
         LET fetched == get_reviews_by_book(res.arg, 0, SummaryReviews)
         IN  res' = [res EXCEPT !.op = "get_review_summary",
                                !.text = summary_text(res.avg, res.total, fetched, outcome, text),
                                !.called = (fetched # <<>>),
                                !.value = IF fetched = <<>> THEN "skipped" ELSE outcome]
    /\ UNCHANGED <<books, reviews, nextBookId, nextReviewId, client, users, nextUserId, now, tasks, loop>>

\* The response goes out.
SummaryRespond ==
    /\ res.op = "get_review_summary"
    /\ EndRequest

\* Another request creates a review (ReviewService.create_review commits).
OtherCreatesReview ==
    /\ Len(reviews) < MaxReviews
    /\ nextReviewId <= MaxReviews + 1
    /\ \E b \in BookIdInputs, u \in UserIds, r \in Ratings, t \in ReviewTexts :
         /\ get_book_by_id(b) # None
         /\ reviews' = Append(reviews,
                [id |-> nextReviewId, book_id |-> b, user_id |-> u, rating |-> r,
                 review_text |-> t, updated_at |-> now])
         /\ nextReviewId' = nextReviewId + 1
    /\ UNCHANGED <<books, nextBookId, client, res, users, nextUserId, now, tasks, loop>>

\* Another request deletes a review (ReviewService.delete_review commits).
OtherDeletesReview ==
    /\ \E id \in Range(Ids(reviews)) : reviews' = delete_review(id).reviews
    /\ UNCHANGED <<books, nextBookId, nextReviewId, client, res, users, nextUserId, now, tasks, loop>>

NextSummary ==
    \/ SummaryGetBook
    \/ SummaryGetRating
    \/ SummaryGetReviews
    \/ SummaryRespond
    \/ OtherCreatesReview
    \/ OtherDeletesReview

SpecSummary == InitSummary /\ [][NextSummary]_vars

(* ------------------ review requests of signed-in users --------------- *)

\* PUT /reviews/{review_id} by the user whose token the request carries;
\* res.arg is <<review_id, user_id>>.
RouteUpdateReview ==
    /\ Idle
    /\ \E id \in 1 .. (MaxReviews + 1), user_id \in UserIds,
          fields_set \in SUBSET ReviewFields,
          review_text \in ReviewTextUpdates, rating \in RatingUpdates :
         LET review_data == ReviewUpdateData(fields_set, review_text, rating)
             r == route_update_review(id, review_data, user_id)
         IN  /\ reviews' = r.reviews
             /\ res' = [NoRes EXCEPT !.op = "route_update_review", !.arg = <<id, user_id>>,
                                     !.arg2 = review_data,
                                     !.value = r.value, !.raised = r.raised]
    /\ UNCHANGED <<books, nextBookId, nextReviewId, client, users, nextUserId, now, tasks, loop>>

\* DELETE /reviews/{review_id}
RouteDeleteReview ==
    /\ Idle
    /\ \E id \in 1 .. (MaxReviews + 1), user_id \in UserIds :
         LET r == route_delete_review(id, user_id)
         IN  /\ reviews' = r.reviews
             /\ res' = [NoRes EXCEPT !.op = "route_delete_review", !.arg = <<id, user_id>>,
                                     !.value = r.value, !.raised = r.raised]
    /\ UNCHANGED <<books, nextBookId, nextReviewId, client, users, nextUserId, now, tasks, loop>>

NextAuthor ==
    \/ RouteUpdateReview
    \/ RouteDeleteReview
    \/ Tick
    \/ EndRequest

SpecAuthor == InitStore /\ [][NextAuthor]_vars

(* ----------- create-review and delete-book requests in steps ---------- *)

\* The two handlers as tasks of the event loop, one step for each call they
\* await, so that one request's commit can fall between the lookup and the
\* commit of another. kind and arg are the request and its book id, pc the
\* call the task is suspended in. res is the response that has just gone out.
\* The requests start from the catalog of InitStore.
RaceKinds == { "create_review", "delete_book" }

\* A request arrives and its handler starts "await BookService.get_book_by_id".
RaceAccept(t) ==
    /\ tasks[t].kind = "none"
    /\ nextReviewId <= MaxReviews + 1
    /\ \E kind \in RaceKinds, b \in BookIdInputs :
         tasks' = [tasks EXCEPT ![t] = [ kind |-> kind, arg |-> b,
                                         pc |-> "get_book_by_id", ready |-> FALSE ]]
    /\ UNCHANGED <<books, reviews, nextBookId, nextReviewId, client, res,
                   users, nextUserId, now, loop>>

\* create_review of review_routes after its lookup: 404 when the book is
\* missing, otherwise on to "await ReviewService.create_review".
ReviewLookup(t) ==
    /\ Idle
    /\ tasks[t].kind = "create_review"
    /\ tasks[t].pc = "get_book_by_id"
    /\ IF get_book_by_id(tasks[t].arg) = None
       THEN /\ res' = [NoRes EXCEPT !.op = "create_review", !.arg = tasks[t].arg,
                                    !.raised = "404"]
            /\ tasks' = [tasks EXCEPT ![t] = NoTask]
       ELSE /\ res' = res
            /\ tasks' = [tasks EXCEPT ![t].pc = "create_review"]
    /\ UNCHANGED <<books, reviews, nextBookId, nextReviewId, client,
                   users, nextUserId, now, loop>>

\* create_review of review_routes from "await ReviewService.create_review" to
\* its response: the review, or 400 for an exception of the service.
ReviewInsert(t) ==
    /\ Idle
    /\ tasks[t].kind = "create_review"
    /\ tasks[t].pc = "create_review"
    /\ \E u \in UserIds, r \in Ratings, text \in ReviewTexts :
         LET done == create_review(tasks[t].arg, u, text, r)
         IN  /\ reviews' = done.reviews
             /\ nextReviewId' = IF done.raised = "none" THEN nextReviewId + 1 ELSE nextReviewId
             /\ res' = [NoRes EXCEPT !.op = "create_review", !.arg = tasks[t].arg,
                                     !.raised = IF done.raised = "none" THEN "none" ELSE "400",
                                     !.value = IF done.raised = "none" THEN "Review" ELSE "none"]
    /\ tasks' = [tasks EXCEPT ![t] = NoTask]
    /\ UNCHANGED <<books, nextBookId, client, users, nextUserId, now, loop>>

\* BookService.delete_book after its lookup: False (the route's 404) when the
\* book is missing, otherwise on to session.delete(book) and the commit.
BookLookup(t) ==
    /\ Idle
    /\ tasks[t].kind = "delete_book"
    /\ tasks[t].pc = "get_book_by_id"
    /\ IF get_book_by_id(tasks[t].arg) = None
       THEN /\ res' = [NoRes EXCEPT !.op = "delete_book", !.arg = tasks[t].arg,
                                    !.raised = "404", !.value = "False"]
            /\ tasks' = [tasks EXCEPT ![t] = NoTask]
       ELSE /\ res' = res
            /\ tasks' = [tasks EXCEPT ![t].pc = "commit"]
    /\ UNCHANGED <<books, reviews, nextBookId, nextReviewId, client,
                   users, nextUserId, now, loop>>

\* The commit of delete_book: the DELETE of the reviews loaded with the book
\* and of the book row, on which the database deletes the reviews that still
\* refer to it (ondelete="CASCADE").
BookCommit(t) ==
    /\ Idle
    /\ tasks[t].kind = "delete_book"
    /\ tasks[t].pc = "commit"
    /\ books' = SelectSeq(books, LAMBDA b : b.id # tasks[t].arg)
    /\ reviews' = SelectSeq(reviews, LAMBDA r : r.book_id # tasks[t].arg)
    /\ res' = [NoRes EXCEPT !.op = "delete_book", !.arg = tasks[t].arg, !.value = "True"]
    /\ tasks' = [tasks EXCEPT ![t] = NoTask]
    /\ UNCHANGED <<nextBookId, nextReviewId, client, users, nextUserId, now, loop>>

NextShelf ==
    \/ \E t \in TaskIds :
          \/ RaceAccept(t)
          \/ ReviewLookup(t)
          \/ ReviewInsert(t)
          \/ BookLookup(t)
          \/ BookCommit(t)
    \/ EndRequest

SpecShelf == InitStore /\ [][NextShelf]_vars

(* ------------------- recommendations from a history ------------------ *)

\* Two books whose genres are any of the texts in use, those with "_" among
\* them (BookBase.genre is any non-empty string), each with at most one review.
InitTaste ==
    /\ \E g \in [1 .. 2 -> GenreInputs] :
         books = [ b \in 1 .. 2 |->
                     [id |-> b, title |-> <<"A">>, genre |-> g[b], updated_at |-> 0] ]
    /\ \E c \in [1 .. 2 -> HistoryChoices] :
         reviews = SelectSeq(
                     [ b \in 1 .. 2 |->
                         [ id |-> b, book_id |-> b,
                           user_id |-> IF c[b] = "u2_425" THEN 2 ELSE 1,
                           rating |-> CASE c[b] = "u1_3" -> 12 [] c[b] = "u1_4" -> 16
                                        [] OTHER -> 17,
                           review_text |-> <<"g">>, updated_at |-> 0 ] ],
                     LAMBDA r : c[r.book_id] # "none")
    /\ nextBookId = 3
    /\ nextReviewId = 3
    /\ client = "groq"
    /\ res = NoRes
    /\ users = <<>>
    /\ nextUserId = 1
    /\ now = 0
    /\ tasks = [ t \in TaskIds |-> NoTask ]
    /\ loop = 0

NextTaste ==
    \/ GetUserRecommendations
    \/ EndRequest

SpecTaste == InitTaste /\ [][NextTaste]_vars

(* --------------------- averages of Float ratings ---------------------- *)

\* Review.rating is a Float column and func.avg over it is computed by the
\* database in binary floating point: the running sum is rounded after every
\* addition and the quotient sum / count is rounded once more. The format is
\* scaled down to MantissaBits significant bits, round to nearest, ties to
\* even. A float of 1.0 or more is written as an integer number of units of
\* 1 / FloatDen, the spacing of the floats in [1, 2).
MantissaBits == 4

\* The largest number of reviews of the book whose ratings are averaged.
MaxRated == 3

RECURSIVE Pow2(_)
Pow2(k) == IF k = 0 THEN 1 ELSE 2 * Pow2(k - 1)

FloatDen == Pow2(MantissaBits - 1)

\* The spacing, in units, of the floats around n / d: 1 below 2.0, 2 in
\* [2, 4), 4 in [4, 8), ...
RECURSIVE Spacing(_, _, _)
Spacing(n, d, s) == IF n >= 2 * s * FloatDen * d THEN Spacing(n, d, 2 * s) ELSE s

\* The float nearest to n / d units.
RoundFloat(n, d) ==
    LET s == Spacing(n, d, 1)
        k == n \div (d * s)
        twice == 2 * (n % (d * s))
    IN  s * (IF twice > d * s \/ (twice = d * s /\ k % 2 = 1) THEN k + 1 ELSE k)

\* The ratings that ReviewBase accepts (ge=1, le=5) and the column can hold.
FloatRatings ==
    { v \in (RatingMin * FloatDen) .. (RatingMax * FloatDen) : RoundFloat(v, 1) = v }

\* The running sum of the aggregate, from sx over the ratings rs in order.
RECURSIVE float8_accum(_, _)
float8_accum(sx, rs) ==
    IF rs = <<>> THEN sx ELSE float8_accum(RoundFloat(sx + Head(rs), 1), Tail(rs))

\* The ratings of the reviews of a book, in the order of the scan.
RatingsOf(book_id) ==
    LET rs == ReviewsOf(book_id) IN [ i \in DOMAIN rs |-> rs[i].rating ]

\* Variant of float8_avg that divides the sum by one more than the count.
float8_avg_offbyone(book_id) ==
    LET rs == RatingsOf(book_id)
    IN  IF rs = <<>> THEN None
        ELSE Frac(RoundFloat(float8_accum(0, rs), Len(rs) + 1), FloatDen)

\* func.avg(Review.rating) in floating point: NULL without rows.
float8_avg(book_id) ==
    LET rs == RatingsOf(book_id)
    IN  IF rs = <<>> THEN None
        ELSE Frac(RoundFloat(float8_accum(0, rs), Len(rs)), FloatDen)

\* ReviewService.get_book_rating_summary over the floating-point aggregate.
get_book_rating_summary_float8(book_id) ==
    LET avg_rating == float8_avg(book_id)
        total_reviews == ReviewCount(book_id)
    IN  << IF avg_rating # None /\ avg_rating # Zero THEN avg_rating ELSE Zero,
           total_reviews >>

\* One book with one to MaxRated reviews; here a rating is a float in units
\* of 1 / FloatDen.
InitAverage ==
    /\ books = << [id |-> 1, title |-> <<"A">>, genre |-> <<"F", "i">>, updated_at |-> 0] >>
    /\ \E n \in 1 .. MaxRated : \E rs \in [1 .. n -> FloatRatings] :
         reviews = [ i \in 1 .. n |->
                       [ id |-> i, book_id |-> 1, user_id |-> 1, rating |-> rs[i],
                         review_text |-> <<"g">>, updated_at |-> 0 ] ]
    /\ nextBookId = 2
    /\ nextReviewId = Len(reviews) + 1
    /\ client = "groq"
    /\ res = NoRes
    /\ users = <<>>
    /\ nextUserId = 1
    /\ now = 0
    /\ tasks = [ t \in TaskIds |-> NoTask ]
    /\ loop = 0

\* ReviewService.get_book_rating_summary as a request
GetBookRatingSummaryFloat8 ==
    /\ Idle
    /\ \E b \in BookIdInputs :
         LET summary == get_book_rating_summary_float8(b)
         IN  res' = [NoRes EXCEPT !.op = "get_book_rating_summary_float8", !.arg = b,
                                  !.avg = summary[1], !.total = summary[2]]
    /\ UNCHANGED <<books, reviews, nextBookId, nextReviewId, client, users, nextUserId, now, tasks, loop>>

NextAverage ==
    \/ GetBookRatingSummaryFloat8
    \/ EndRequest

SpecAverage == InitAverage /\ [][NextAverage]_vars

(* ---------------------- properties of the services ------------------- *)

RecommendationOps ==
    { "get_recommendations_by_genre", "get_popular_books", "get_similar_books",
      "get_user_recommendations", "get_recommendations_with_llm" }

AdvisorFailures == {"timeout", "transport", "malformed", "unconfigured"}

Distinct(seq) == \A i, j \in DOMAIN seq : seq[i].id = seq[j].id => i = j

\* Every list get_popular_books(limit) with the default min_reviews can return
\* on the present data.
PopularOutcomes(limit) ==
    { get_popular_books(limit, DefaultMinReviews, scan) : scan \in ScanOrders }

\* The ratings of a book's reviews, summed review by review.
RatingTotal(book_id) ==
    LET ix == { i \in DOMAIN reviews : reviews[i].book_id = book_id }
        RECURSIVE Sum(_)
        Sum(S) == IF S = {} THEN 0
                  ELSE LET i == CHOOSE x \in S : TRUE IN reviews[i].rating + Sum(S \ {i})
    IN  Sum(ix)

NumReviews(book_id) == Cardinality({ i \in DOMAIN reviews : reviews[i].book_id = book_id })

\* q rounded half-up to 2 decimal places, as a fraction.
RoundHalfUp2(q) == Frac((200 * q[1] + q[2]) \div (2 * q[2]), 100)

\* A sequence with every later occurrence of an id already seen dropped.
RECURSIVE FirstOccurrences(_)
FirstOccurrences(seq) ==
    IF seq = <<>> THEN <<>>
    ELSE LET init == FirstOccurrences(SubSeq(seq, 1, Len(seq) - 1))
             last == seq[Len(seq)]
         IN  IF \E i \in DOMAIN init : init[i].id = last.id THEN init ELSE Append(init, last)

RECURSIVE Concat(_)
Concat(lists) == IF lists = <<>> THEN <<>> ELSE Head(lists) \o Concat(Tail(lists))

\* C1: every recommendation operation returns at most `limit` books, no two
\* of them with the same id (limit >= 0).
C1_BoundedAndDistinct ==
    res.op \in RecommendationOps =>
        /\ Len(res.items) <= res.limit
        /\ Distinct(res.items)

\* C2: when the advisor call fails, get_recommendations_with_llm does not
\* raise and returns the list get_popular_books returns for the same limit
\* on the same data.
C2_FallbackIsPopular ==
    (res.op = "get_recommendations_with_llm" /\ res.arg \in AdvisorFailures) =>
        /\ res.raised = "none"
        /\ res.items \in PopularOutcomes(res.limit)

C2_Witness ==
    /\ res.op = "get_recommendations_with_llm"
    /\ res.arg = "timeout"
    /\ res.items # <<>>
    /\ Len(books) = MaxBooks

\* C3 as stated: on advisor failure the returned list is non-empty (for a
\* request that asks for at least one book).
C3_FallbackNonEmpty ==
    ( /\ res.op = "get_recommendations_with_llm"
      /\ res.arg \in AdvisorFailures
      /\ res.limit >= 1 )
    => res.items # <<>>

\* C3, amended: on advisor failure the returned list is non-empty exactly
\* when limit >= 1 and some book has at least DefaultMinReviews reviews.
C3_FallbackNonEmptyIffPopular ==
    (res.op = "get_recommendations_with_llm" /\ res.arg \in AdvisorFailures) =>
        ( res.items # <<>> <=>
            /\ res.limit >= 1
            /\ \E i \in DOMAIN books : NumReviews(books[i].id) >= DefaultMinReviews )

C3_Witness ==
    /\ res.op = "get_recommendations_with_llm"
    /\ res.arg = "transport"
    /\ res.items # <<>>

\* C4: when the advisor call succeeds, the advisor's text comes back unchanged
\* as the second component, with the first `limit` books by ascending id; the
\* popularity fallback is not taken.
C4_SuccessReturnsReasoning ==
    (res.op = "get_recommendations_with_llm" /\ res.arg = "ok") =>
        /\ res.text = res.arg2
        /\ res.items = Take(OrderById(books), res.limit)

\* C5: a book without reviews has the summary (0.0, 0), and total_reviews = 0
\* always comes with average_rating = 0.0.
C5_NoReviewsSentinel ==
    res.op = "get_book_rating_summary" =>
        /\ (NumReviews(res.arg) = 0 => res.avg = Zero /\ res.total = 0)
        /\ (res.total = 0 => res.avg = Zero)

C5_Witness ==
    /\ res.op = "get_book_rating_summary"
    /\ get_book_by_id(res.arg) # None
    /\ NumReviews(res.arg) = 0
    /\ reviews # <<>>

\* C6 as stated: with reviews, total_reviews is their number and
\* average_rating is sum/count rounded half-up to 2 decimal places.
C6_AverageRoundedHalfUp ==
    (res.op = "get_book_rating_summary" /\ NumReviews(res.arg) > 0) =>
        /\ res.total = NumReviews(res.arg)
        /\ res.avg = RoundHalfUp2(<<RatingTotal(res.arg), NumReviews(res.arg) * RatingDen>>)

\* C6, amended: with reviews, total_reviews is their number and average_rating
\* is exactly sum/count, not rounded.
C6_AverageExact ==
    (res.op = "get_book_rating_summary" /\ NumReviews(res.arg) > 0) =>
        /\ res.total = NumReviews(res.arg)
        /\ res.avg # None
        /\ res.avg[1] * NumReviews(res.arg) * RatingDen = RatingTotal(res.arg) * res.avg[2]

C6_Witness ==
    /\ res.op = "get_book_rating_summary"
    /\ NumReviews(res.arg) = 2
    /\ res.avg = <<33, 8>>

\* C7: for a user with no review rated >= 4, get_user_recommendations returns
\* the list get_popular_books(limit) returns with the default min_reviews.
C7_NoFavouritesIsPopular ==
    ( /\ res.op = "get_user_recommendations"
      /\ ~ \E i \in DOMAIN reviews :
              reviews[i].user_id = res.arg /\ reviews[i].rating >= FavoriteMinRating * RatingDen )
    => res.items \in PopularOutcomes(res.limit)

C7_Witness ==
    /\ res.op = "get_user_recommendations"
    /\ \E i \in DOMAIN reviews : reviews[i].user_id = res.arg
    /\ \A i \in DOMAIN reviews :
          reviews[i].user_id = res.arg => reviews[i].rating < FavoriteMinRating * RatingDen
    /\ \E i \in DOMAIN reviews :
          reviews[i].user_id # res.arg /\ reviews[i].rating >= FavoriteMinRating * RatingDen
    /\ res.limit >= 1

\* C8: get_similar_books with an id that is not in the catalog returns the
\* empty list and raises nothing, whatever the limit.
C8_SimilarToMissingIsEmpty ==
    ( /\ res.op = "get_similar_books"
      /\ \A i \in DOMAIN books : books[i].id # res.arg )
    => (res.items = <<>> /\ res.raised = "none")

C8_Witness ==
    /\ res.op = "get_similar_books"
    /\ \A i \in DOMAIN books : books[i].id # res.arg
    /\ Len(books) = MaxBooks
    /\ res.limit >= 1

\* C9: the merge/dedup step returns the first `limit` elements of the
\* concatenated candidate lists with later occurrences of an id dropped.
C9_MergeIsTruncatedFirstOccurrences ==
    (res.op = "get_user_recommendations" /\ res.lists # <<>>) =>
        res.items = Take(FirstOccurrences(Concat(res.lists)), res.limit)

\* C10: a second call of the same strategy with the same inputs on unchanged
\* data returns the sequence the first call returned; in particular the order
\* get_popular_books gives to books of equal average rating never varies.
C10_PopularRepeatable ==
    res.op = "get_popular_books" =>
        \A scan \in ScanOrders : get_popular_books(res.limit, res.arg, scan) = res.items

\* C11: while the advisor call of one request is in flight, every other
\* request that is ready to run can be resumed by the loop.
C11_SchedulerNotBlocked ==
    \A t, u \in TaskIds :
        (u # t /\ tasks[t].pc \in CallPositions /\ tasks[u].ready) => ENABLED Resume(u)

\* C12: without advisor credentials each of generate_summary,
\* generate_review_summary and generate_recommendations raises the
\* configuration error without a request going out to the API, and an
\* advisor-backed recommendation request returns a popularity result
\* without raising.
C12_UnconfiguredFailsFast ==
    client = "none" =>
        /\ \A outcome \in AdvisorOutcomes, text \in AdvisorTexts :
             \A r \in { generate_summary(outcome, text),
                        generate_review_summary(outcome, text),
                        generate_recommendations(outcome, text) } :
                 r.raised = "RuntimeError" /\ r.msg = NotConfiguredMsg /\ ~r.called
        /\ res.op = "generate_summary" =>
             res.raised = "RuntimeError" /\ res.text = NotConfiguredMsg /\ ~res.called
        /\ res.op = "get_review_summary" => ~res.called
        /\ res.op = "get_recommendations_with_llm" =>
             /\ res.raised = "none"
             /\ ~res.called
             /\ res.items \in PopularOutcomes(res.limit)

C12_Witness ==
    /\ client = "none"
    /\ res.op = "get_recommendations_with_llm"
    /\ res.items # <<>>
    /\ res.raised = "none"

\* C13: a step that answers a recommendation request, a rating-summary
\* request or a review-summary request leaves books, reviews and users as
\* they were, whether or not the advisor failed.
C13_ReadOnly ==
    [][ res'.op \in RecommendationOps \cup {"get_book_rating_summary", "get_review_summary"}
          => books' = books /\ reviews' = reviews /\ users' = users ]_vars

C13_Witness ==
    /\ res.op = "get_recommendations_with_llm"
    /\ res.arg \in AdvisorFailures
    /\ books # <<>>
    /\ reviews # <<>>

\* C14: a review-summary request for an existing book without reviews is
\* answered without error, with total_reviews 0, average_rating 0.0 and the
\* fixed no-reviews message, and no call to the advisor.
C14_NoReviewsSummary ==
    (/\ res.op = "get_review_summary"
     /\ get_book_by_id(res.arg) # None
     /\ ReviewsOf(res.arg) = <<>>)
    => /\ res.raised = "none"
       /\ res.total = 0
       /\ res.avg = Zero
       /\ res.text = NoReviewsMsg
       /\ res.value = "skipped"
       /\ ~res.called

C14_Witness ==
    /\ res.op = "get_review_summary"
    /\ get_book_by_id(res.arg) # None
    /\ ReviewsOf(res.arg) = <<>>
    /\ reviews # <<>>
    /\ client = "groq"

\* C15: a review-summary request for a book that has reviews is answered
\* without error whatever the advisor does; the summary is the advisor's
\* text when the advisor answered and the sentence built from the reported
\* total_reviews and average_rating when it raised; in every response the
\* summary is one of advisor text, that sentence or the no-reviews message.
C15_SummaryNeverFailsOnAdvisor ==
    res.op = "get_review_summary" =>
        /\ ReviewsOf(res.arg) # <<>> =>
             /\ res.raised = "none"
             /\ res.value \in AdvisorFailures =>
                  res.text = FallbackSentence(res.total, res.avg)
             /\ res.value = "ok" => res.text = Strip(res.arg2)
             /\ res.total = Len(ReviewsOf(res.arg))
        /\ res.raised = "none" =>
             \/ res.value = "ok" /\ res.text = Strip(res.arg2)
             \/ res.text = FallbackSentence(res.total, res.avg)
             \/ res.text = NoReviewsMsg

C15_Witness ==
    /\ res.op = "get_review_summary"
    /\ res.value = "timeout"
    /\ res.called
    /\ res.total = 2
    /\ res.text = FallbackSentence(2, Frac(33, 8))

\* sub occurs in s as a run of consecutive characters.
Contains(s, sub) ==
    \E i \in 0 .. (Len(s) - Len(sub)) : SubSeq(s, i + 1, i + Len(sub)) = sub

\* C16: get_recommendations_by_genre returns the first limit books, in the
\* order the catalog yields them, among the books whose genre contains genre
\* as a substring (case ignored) and whose id is not excluded; hence
\* min(limit, number of such books) books, none when no book matches.
C16_GenreSubstringPrefix ==
    res.op = "get_recommendations_by_genre" =>
        LET wanted(b) == /\ Contains(Lower(b.genre), Lower(res.arg))
                         /\ b.id \notin res.arg2
        IN  /\ \E scan \in ScanOrders : res.items = Take(SelectSeq(scan, wanted), res.limit)
            /\ Len(res.items) =
                 Min(res.limit, Cardinality({ i \in DOMAIN books : wanted(books[i]) }))

\* C20: get_popular_books(limit, min_reviews) returns only books with at
\* least min_reviews reviews, in order of non-increasing average rating; no
\* qualifying book that is left out has a strictly higher average than a
\* returned book, and the result has min(limit, number of rated qualifying
\* books) entries.
C20_PopularTopSelection ==
    res.op = "get_popular_books" =>
        LET rated == { b \in Range(books) :
                         ReviewCount(b.id) >= res.arg /\ ReviewCount(b.id) > 0 }
        IN  /\ \A i \in DOMAIN res.items : ReviewCount(res.items[i].id) >= res.arg
            /\ \A i, j \in DOMAIN res.items :
                 i < j => ~FracLess(AvgRating(res.items[i].id), AvgRating(res.items[j].id))
            /\ \A b \in rated \ Range(res.items) :
                 \A i \in DOMAIN res.items :
                     ~FracLess(AvgRating(res.items[i].id), AvgRating(b.id))
            /\ Range(res.items) \subseteq Range(books)
            /\ Distinct(res.items)
            /\ Len(res.items) = Min(res.limit, Cardinality(rated))

C20_Witness ==
    /\ res.op = "get_popular_books"
    /\ res.limit = 1
    /\ Len(res.items) = 1
    /\ \E b \in Range(books) \ Range(res.items) :
         /\ ReviewCount(b.id) >= res.arg
         /\ ReviewCount(b.id) > 0
         /\ FracLess(AvgRating(b.id), AvgRating(res.items[1].id))

\* The rows other than the one with id target are as before, and so is every
\* column of that row outside given (a set of column names).
OnlyChanged(rows, rows2, target, given) ==
    /\ DOMAIN rows2 = DOMAIN rows
    /\ \A i \in DOMAIN rows :
         /\ DOMAIN rows2[i] = DOMAIN rows[i]
         /\ \A f \in DOMAIN rows[i] :
              (rows[i].id # target \/ f \notin given) => rows2[i][f] = rows[i][f]

\* C17 as stated: update_book and update_review change nothing but the
\* columns given in the update data, on the target row.
C17_OnlyProvidedFieldsChange ==
    [][ /\ res'.op = "update_book" =>
             reviews' = reviews /\ OnlyChanged(books, books', res'.arg, DOMAIN res'.arg2)
        /\ res'.op = "update_review" =>
             books' = books /\ OnlyChanged(reviews, reviews', res'.arg, DOMAIN res'.arg2)
      ]_vars

\* C17, amended: update_book and update_review change nothing but the columns
\* given in the update data and updated_at, on the target row; updated_at
\* moves only when a given column gets a new value; a call that returns the
\* row has stored the given values.
C17_OnlyProvidedFieldsAndTimestampChange ==
    [][ /\ res'.op = "update_book" =>
             /\ reviews' = reviews
             /\ OnlyChanged(books, books', res'.arg, DOMAIN res'.arg2 \cup {"updated_at"})
             /\ \A i \in DOMAIN books :
                  books'[i].updated_at # books[i].updated_at =>
                      /\ books'[i].updated_at = now
                      /\ \E f \in DOMAIN res'.arg2 : books'[i][f] # books[i][f]
             /\ res'.value = "Book" =>
                  \A i \in DOMAIN books :
                      books[i].id = res'.arg =>
                          \A f \in DOMAIN res'.arg2 : books'[i][f] = res'.arg2[f]
        /\ res'.op = "update_review" =>
             /\ books' = books
             /\ OnlyChanged(reviews, reviews', res'.arg, DOMAIN res'.arg2 \cup {"updated_at"})
             /\ \A i \in DOMAIN reviews :
                  reviews'[i].updated_at # reviews[i].updated_at =>
                      /\ reviews'[i].updated_at = now
                      /\ \E f \in DOMAIN res'.arg2 : reviews'[i][f] # reviews[i][f]
             /\ res'.value = "Review" =>
                  \A i \in DOMAIN reviews :
                      reviews[i].id = res'.arg =>
                          \A f \in DOMAIN res'.arg2 : reviews'[i][f] = res'.arg2[f]
      ]_vars

C17_Witness ==
    /\ res.op = "update_book"
    /\ res.value = "Book"
    /\ DOMAIN res.arg2 = {"title"}
    /\ get_book_by_id(res.arg) # None
    /\ get_book_by_id(res.arg).title = <<"B">>
    /\ get_book_by_id(res.arg).genre = <<"F", "i">>
    /\ get_book_by_id(res.arg).updated_at = 1
    /\ Len(books) = 2

\* C18: delete_book(id) returns True exactly when a book with that id was
\* there, and then no book has that id afterwards; for an id that is not
\* there delete_book returns False and update_book returns None, neither
\* raises, and books and reviews are as before.
C18_DeleteAndMissing ==
    [][ /\ res'.op = "delete_book" =>
             /\ res'.raised = "none"
             /\ res'.value \in {"True", "False"}
             /\ res'.value = "True" <=> get_book_by_id(res'.arg) # None
             /\ res'.value = "True" => \A i \in DOMAIN books' : books'[i].id # res'.arg
             /\ res'.value = "False" => books' = books /\ reviews' = reviews
        /\ (res'.op = "update_book" /\ get_book_by_id(res'.arg) = None) =>
             /\ res'.raised = "none"
             /\ res'.value = "None"
             /\ books' = books
             /\ reviews' = reviews
      ]_vars

C18_Witness ==
    /\ res.op = "delete_book"
    /\ res.value = "True"
    /\ get_book_by_id(res.arg) = None
    /\ Len(books) = 1
    /\ Len(reviews) = 1

\* C19: no two stored users share a username or an email, and a create_user
\* call for a username or an email that is taken raises ValueError and adds
\* no user.
C19_UniqueOrValueError ==
    [][ res'.op = "create_user" =>
          /\ \A i, j \in DOMAIN users' :
               i # j => /\ users'[i].username # users'[j].username
                        /\ users'[i].email # users'[j].email
          /\ (\E i \in DOMAIN users :
                 users[i].username = res'.arg \/ users[i].email = res'.arg2)
               => res'.raised = "ValueError" /\ users' = users
      ]_vars

\* C21: for a reference book that exists, get_similar_books returns at most
\* limit books, each of them a stored book whose genre is the same string as
\* the reference book's genre, none of them the reference book, none twice.
C21_SimilarSameGenre ==
    (res.op = "get_similar_books" /\ get_book_by_id(res.arg) # None) =>
        /\ Len(res.items) <= res.limit
        /\ Distinct(res.items)
        /\ \A i \in DOMAIN res.items :
             /\ res.items[i] \in Range(books)
             /\ res.items[i].genre = get_book_by_id(res.arg).genre
             /\ res.items[i].id # res.arg

C21_Witness ==
    /\ res.op = "get_similar_books"
    /\ get_book_by_id(res.arg) # None
    /\ Len(res.items) = 1
    /\ \E b \in Range(books) : b.id # res.arg /\ b.genre = get_book_by_id(res.arg).genre

\* ceil(a / b) for b > 0
Ceil(a, b) == (a + b - 1) \div b

\* C22: with n >= 1 favourite genres, the candidate list of each favourite
\* genre is what get_recommendations_by_genre returns when asked for
\* ceil(limit / n) books (stated for limit >= 1).
C22_PerGenreCeil ==
    (res.op = "get_user_recommendations" /\ res.arg2 # <<>> /\ res.limit >= 1) =>
        /\ PerGenreLimit(res.limit, Len(res.arg2)) = Ceil(res.limit, Len(res.arg2))
        /\ \A i \in DOMAIN res.lists :
             \E scan \in ScanOrders :
                 res.lists[i] = get_recommendations_by_genre(
                                    res.arg2[i], Ceil(res.limit, Len(res.arg2)), {}, scan)

\* The genres of the books that user_id rated 4 or more.
LikedGenres(user_id) ==
    { b.genre : b \in { x \in Range(books) :
                          \E i \in DOMAIN reviews :
                              /\ reviews[i].book_id = x.id
                              /\ reviews[i].user_id = user_id
                              /\ reviews[i].rating >= 4 * RatingDen } }

\* C23: the favourite genres of a user are genres of books that this user
\* rated 4 or more, no genre occurs twice, and there are min(3, number of
\* such genres) of them.
C23_FavouriteGenres ==
    res.op \in {"favorite_genres", "get_user_recommendations"} =>
        /\ Range(res.arg2) \subseteq LikedGenres(res.arg)
        /\ \A i, j \in DOMAIN res.arg2 : res.arg2[i] = res.arg2[j] => i = j
        /\ Len(res.arg2) <= 3
        /\ Len(res.arg2) = Min(3, Cardinality(LikedGenres(res.arg)))

C23_Witness ==
    /\ res.op = "favorite_genres"
    /\ res.arg = 1
    /\ Len(res.arg2) = 3
    /\ Cardinality(LikedGenres(1)) = 4

\* C24: when the advisor fails (no credentials, timeout, transport error or
\* malformed response), the second component returned by
\* get_recommendations_with_llm is the text of the exception that the except
\* branch caught: the configuration error, or "Failed to generate
\* recommendations: " followed by the text of the API error.
C24_CriteriaIsErrorText ==
    (res.op = "get_recommendations_with_llm" /\ res.arg # "ok") =>
        /\ res.raised = "none"
        /\ res.text = IF res.arg = "unconfigured"
                      THEN NotConfiguredMsg
                      ELSE << "Failed to generate ", "recommendations", ": ", res.arg >>

C24_Witness ==
    /\ res.op = "get_recommendations_with_llm"
    /\ res.arg = "timeout"
    /\ res.called
    /\ res.text = << "Failed to generate ", "recommendations", ": ", "timeout" >>

C26_NoReviewsIffZero ==
    (res.op = "get_review_summary" /\ res.raised = "none") =>
        (res.text = NoReviewsMsg <=> res.total = 0)

C28_ReviewsReferToBooks ==
    [][ /\ \A i \in DOMAIN reviews' : \E j \in DOMAIN books' : books'[j].id = reviews'[i].book_id
        /\ (res.op = "none" /\ res'.op = "create_review"
              /\ get_book_by_id(res'.arg) = None) =>
                 (res'.raised = "404" /\ reviews' = reviews)
        /\ (res.op = "none" /\ res'.op = "delete_book" /\ res'.value = "True") =>
                 \A i \in DOMAIN reviews' : reviews'[i].book_id # res'.arg ]_vars

\* The smallest and the largest of a non-empty sequence of numbers.
MinOf(rs) == CHOOSE x \in Range(rs) : \A y \in Range(rs) : x <= y

MaxOf(rs) == CHOOSE x \in Range(rs) : \A y \in Range(rs) : y <= x

\* The exact sum of a sequence of numbers.
RECURSIVE SumOf(_)
SumOf(rs) == IF rs = <<>> THEN 0 ELSE Head(rs) + SumOf(Tail(rs))

\* lo <= p <= hi for a fraction p and numbers lo, hi of units of 1 / FloatDen.
FracWithin(p, lo, hi) == lo * p[2] <= p[1] * FloatDen /\ p[1] * FloatDen <= hi * p[2]

\* C29 as stated: the average of a reviewed book lies between its smallest
\* and its largest rating and is not 0.0.
C29_AverageBetweenMinAndMax ==
    (res.op = "get_book_rating_summary_float8" /\ RatingsOf(res.arg) # <<>>) =>
        /\ FracWithin(res.avg, MinOf(RatingsOf(res.arg)), MaxOf(RatingsOf(res.arg)))
        /\ res.avg # Zero

\* C29: the average of a reviewed book whose ratings lie in [1,5] lies in
\* [1,5] and is not 0.0, and it lies between the smallest and the largest
\* rating whenever the floating-point sum of the ratings is exact.
C29_AverageInRange ==
    (res.op = "get_book_rating_summary_float8" /\ RatingsOf(res.arg) # <<>>) =>
        /\ FracWithin(res.avg, RatingMin * FloatDen, RatingMax * FloatDen)
        /\ res.avg # Zero
        /\ res.total = Len(RatingsOf(res.arg))
        /\ float8_accum(0, RatingsOf(res.arg)) = SumOf(RatingsOf(res.arg)) =>
               FracWithin(res.avg, MinOf(RatingsOf(res.arg)), MaxOf(RatingsOf(res.arg)))

C29_Witness ==
    /\ res.op = "get_book_rating_summary_float8"
    /\ Len(RatingsOf(res.arg)) = 3
    /\ MinOf(RatingsOf(res.arg)) = 2 * FloatDen
    /\ MaxOf(RatingsOf(res.arg)) = 5 * FloatDen
    /\ FracLess(Frac(2, 1), res.avg)
    /\ FracLess(res.avg, Frac(5, 1))

\* The first of the per-genre lists that holds the book with this id.
FirstList(lists, id) ==
    CHOOSE k \in DOMAIN lists :
        /\ id \in Range(Ids(lists[k]))
        /\ \A l \in DOMAIN lists : id \in Range(Ids(lists[l])) => k <= l

\* C30: when the user has a favourite genre, the genre of every book returned
\* by get_user_recommendations contains one of the favourite genres (case
\* ignored), and a book found for an earlier favourite genre comes before a
\* book found only for later ones.
C30_FavouriteGenreBooksInOrder ==
    (res.op = "get_user_recommendations" /\ res.arg2 # <<>>) =>
        /\ \A i \in DOMAIN res.items :
               \E g \in Range(res.arg2) : Contains(Lower(res.items[i].genre), Lower(g))
        /\ \A i \in DOMAIN res.items : \E k \in DOMAIN res.lists :
               res.items[i].id \in Range(Ids(res.lists[k]))
        /\ \A i, j \in DOMAIN res.items :
               i < j => FirstList(res.lists, res.items[i].id) <= FirstList(res.lists, res.items[j].id)

====
